---------------------------- MODULE Spec2Model ----------------------------
(***************************************************************************)
(* Forecast - Inventory Reorder Predictor (src/App.js, kept as             *)
(* src/unnamed/part_000).                                                  *)
(*                                                                         *)
(* The React component App is modelled as a state machine.  Its state is   *)
(* the three useState cells (products, runningModel, stats), the useRef    *)
(* cell modelStore, the numeric library's allocation table (live models    *)
(* and live tensors), and the asynchronous trainAndPredict calls in        *)
(* flight.  One action stands for one run-to-completion segment of         *)
(* JavaScript: an event handler up to its first await, or the continuation *)
(* of an await up to the next one.                                         *)
(***************************************************************************)
EXTENDS Integers, Sequences, FiniteSets, TLC

VARIABLES
    mounted,       \* the mount effect (useEffect, []) has run
    products,      \* useState: sequence of product records
    runningModel,  \* useState: training in progress
    stats,         \* useState: dashboard numbers
    modelStore,    \* useRef: the installed {model, xMin, xMax}, model = 0 for null
    tasks,         \* the trainAndPredict calls: cycle id -> call frame
    nextId,        \* id given to the next trainAndPredict call that trains
    liveModels,    \* models created and not disposed (by cycle id)
    tensors,       \* tensors created and not disposed: [kind, cycle]
    lastAlert,     \* the text of the last alert() shown, <<>> when none
    splitRun       \* the split of buildAndTrainModel run on its own

vars == <<mounted, products, runningModel, stats, modelStore, tasks, nextId,
          liveModels, tensors, lastAlert, splitRun>>

(***************************************************************************)
(* Bounds.                                                                 *)
(***************************************************************************)
\* Number of records the App generates (150 in the source, scaled down).
GenCount == 7
\* Number of trainAndPredict calls that get as far as training.
MaxCycles == 2
\* Largest dataset the split is run on by itself.
MaxSplitN == 150

Cycles == 1..MaxCycles

(***************************************************************************)
(* generateProducts (lines 12-41).                                         *)
(***************************************************************************)
Max(a, b) == IF a >= b THEN a ELSE b

\* Math.round(Math.abs(Math.sin(i * 11) * 120)) for i = 1..16, as IEEE double
\* arithmetic gives it.
RoundAbsSin ==
    <<120, 1, 120, 2, 120, 3, 120, 4, 120, 5, 120, 6, 120, 7, 120, 8>>

\* Math.round(Math.abs(Math.cos(i * 7) * 400)) for i = 1..16.
RoundAbsCos ==
    <<302, 55, 219, 385, 361, 160, 120, 341, 394, 253, 12, 272, 398, 328, 96, 182>>

\* currentInventory < avgSalesPerWeek * (daysToReplenish / 7) * 1.25 ? 1 : 0.
\* The right-hand side is avg * days * 5 / 28; the comparison is made on
\* integers by multiplying both sides by 28.
BusinessRule(currentInventory, avgSalesPerWeek, daysToReplenish) ==
    IF currentInventory * 28 < avgSalesPerWeek * daysToReplenish * 5 THEN 1 ELSE 0

\* One pushed record.  name is display text only and is left out.  The record
\* carries no prediction: hasPrediction stands for the presence of the
\* predictionScore / prediction / predictionText properties, and by (history,
\* not a field of the program) names the cycle whose model gave the score.
MakeProduct(i) ==
    LET avgSalesPerWeek  == Max(1, RoundAbsSin[i])
        currentInventory == Max(0, RoundAbsCos[i])
        daysToReplenish  == 1 + (i % 21)
    IN  [id               |-> i,
         currentInventory |-> currentInventory,
         avgSalesPerWeek  |-> avgSalesPerWeek,
         daysToReplenish  |-> daysToReplenish,
         reorder          |-> BusinessRule(currentInventory, avgSalesPerWeek,
                                           daysToReplenish),
         hasPrediction    |-> FALSE,
         predictionScore  |-> 0,
         prediction       |-> 0,
         by               |-> 0]

generateProducts(count) == [i \in 1..count |-> MakeProduct(i)]

\* data.reduce((acc, p) => acc + (p.reorder ? 1 : 0), 0)
RECURSIVE CountReorder(_)
CountReorder(items) ==
    IF items = <<>> THEN 0
    ELSE (IF items[1].reorder # 0 THEN 1 ELSE 0) + CountReorder(Tail(items))

\* updated.reduce((s, x) => s + (x.prediction ? 1 : 0), 0)
RECURSIVE CountPrediction(_)
CountPrediction(items) ==
    IF items = <<>> THEN 0
    ELSE (IF items[1].prediction # 0 THEN 1 ELSE 0) + CountPrediction(Tail(items))

(***************************************************************************)
(* The numeric pipeline of buildAndTrainModel and trainAndPredict.         *)
(***************************************************************************)
\* items.map((p) => [p.currentInventory, p.avgSalesPerWeek, p.daysToReplenish])
Features(items) ==
    [i \in 1..Len(items) |->
        <<items[i].currentInventory, items[i].avgSalesPerWeek,
          items[i].daysToReplenish>>]

\* items.map((p) => [p.reorder])
Labels(items) == [i \in 1..Len(items) |-> items[i].reorder]

\* xTensor.min(0) and xTensor.max(0): the column-wise extremes.
ColMin(xs) ==
    [k \in 1..3 |-> CHOOSE m \in {xs[i][k] : i \in 1..Len(xs)} :
                        \A i \in 1..Len(xs) : m <= xs[i][k]]
ColMax(xs) ==
    [k \in 1..3 |-> CHOOSE m \in {xs[i][k] : i \in 1..Len(xs)} :
                        \A i \in 1..Len(xs) : m >= xs[i][k]]

\* normalize: divNoNan(sub(tensor, min), sub(max, min)), in thousandths
\* (fixed point stands for float32); a zero range gives 0.
normalize(xs, min, max) ==
    [i \in 1..Len(xs) |->
        [k \in 1..3 |->
            IF max[k] - min[k] = 0 THEN 0
            ELSE ((xs[i][k] - min[k]) * 1000) \div (max[k] - min[k])]]

\* Mutant: Math.round in place of Math.floor.
SplitIndex_Rounds(total) == (total * 8 + 5) \div 10

\* Math.floor(total * 0.8)
SplitIndex(total) == (total * 8) \div 10

\* t.slice([begin, 0], [size, -1]): size rows starting at row begin (0-based).
Slice(rows, begin, size) == SubSeq(rows, begin + 1, begin + size)

TrainBlock(rows) == Slice(rows, 0, SplitIndex(Len(rows)))
ValBlock(rows) ==
    Slice(rows, SplitIndex(Len(rows)), Len(rows) - SplitIndex(Len(rows)))

\* The fitted network is one of a small family of scoring functions of the
\* normalized features; fit picks one.  Scores are in tenths (0..10).
Weights == 1..3
Predict(w, xn) ==
    CASE w = 1 -> 9
      [] w = 2 -> (IF xn[1] < 500 THEN 8 ELSE 1)
      [] OTHER -> 5

\* score > 0.5 ? 1 : 0
Threshold(score) == IF score > 5 THEN 1 ELSE 0

\* history.history.val_accuracy[last]: the share of the validation block the
\* fitted model labels as yVal does, as <<correct, size>>.
ValAccuracy(w, xVal, yVal) ==
    <<Cardinality({i \in 1..Len(xVal) : Threshold(Predict(w, xVal[i])) = yVal[i]}),
      Len(xVal)>>

\* valAcc != null ? (valAcc * 100).toFixed(1) + "%" : "N/A", the number kept
\* in tenths of a percent; <<>> is "N/A".
FormatAccuracy(valAcc) ==
    IF valAcc[2] = 0 THEN <<>>
    ELSE << (valAcc[1] * 2000 + valAcc[2]) \div (2 * valAcc[2]) >>


(***************************************************************************)
(* State of the component after construction (lines 50-58).                *)
(***************************************************************************)
NullStore == [model |-> 0, xMin |-> <<>>, xMax |-> <<>>]

IdleFrame ==
    [pc |-> "idle", items |-> <<>>, xMin |-> <<>>, xMax |-> <<>>,
     wts |-> 0, valAcc |-> <<0, 0>>, err |-> "", store0 |-> NullStore]

SplitOff == [pc |-> "off", items |-> <<>>, train |-> <<>>, val |-> <<>>]

Init ==
    /\ mounted = FALSE
    /\ products = <<>>
    /\ runningModel = FALSE
    /\ stats = [total |-> 0, serverReorders |-> 0, modelReorders |-> 0,
                modelAccuracy |-> <<>>]
    /\ modelStore = NullStore
    /\ tasks = [c \in Cycles |-> IdleFrame]
    /\ nextId = 1
    /\ liveModels = {}
    /\ tensors = {}
    /\ lastAlert = <<>>
    /\ splitRun = SplitOff

\* A call of trainAndPredict that has started training and has not ended.
InFlight(c) == tasks[c].pc \in {"fit", "data", "rejected"}

\* A rejected await is resumed in a microtask, which runs before the browser
\* delivers the next user event.
MicrotaskPending == \E c \in Cycles : tasks[c].pc = "rejected"

(***************************************************************************)
(* Mount effect (lines 60-65) and the Regenerate Products button (240).    *)
(* setStats((s) => ({...s, total, serverReorders})) keeps the other keys.  *)
(***************************************************************************)
LoadProducts ==
    LET data == generateProducts(GenCount)
    IN  /\ products' = data
        /\ stats' = [stats EXCEPT !.total = Len(data),
                                  !.serverReorders = CountReorder(data)]

Mount ==
    /\ ~mounted
    /\ mounted' = TRUE
    /\ LoadProducts
    /\ UNCHANGED <<runningModel, modelStore, tasks, nextId, liveModels,
                   tensors, lastAlert, splitRun>>

Regenerate ==
    /\ mounted
    /\ ~MicrotaskPending
    /\ LoadProducts
    /\ UNCHANGED <<mounted, runningModel, modelStore, tasks, nextId,
                   liveModels, tensors, lastAlert, splitRun>>

(***************************************************************************)
(* Allocation made by the numeric library.                                 *)
(***************************************************************************)
Buffers(kinds, c) == {[kind |-> k, cycle |-> c] : k \in kinds}

\* Lines 79-84 and 99-102: sub and range are the temporaries of normalize.
BuildKinds ==
    {"xTensor", "yTensor", "xMin", "xMax", "sub", "range", "xNorm",
     "xTrain", "yTrain", "xVal", "yVal"}

\* Lines 125-131.
BuildDisposed ==
    {"xTensor", "yTensor", "xNorm", "xTrain", "yTrain", "xVal", "yVal"}

\* Lines 146-147: inputSub and inputRange are the temporaries of normalize.
NormalizeInputKinds == {"inputTensor", "inputSub", "inputRange", "inputNorm"}

\* Lines 167-169.
ScoreDisposed == {"inputTensor", "inputNorm", "preds"}

(***************************************************************************)
(* trainAndPredict, from the call to the await of model.fit (lines         *)
(* 136-143 and 76-104).  fail names the line that throws, "none" if none.  *)
(***************************************************************************)
StartFailures == {"none", "tensor2d"}

\* Lines 141-143 and 76-104.  store0 (history, not a local of the program)
\* records modelStore.current as the call found it.
StartTraining(fail) ==
    LET c  == nextId
        xs == Features(products)
        fr == [IdleFrame EXCEPT !.items = products, !.store0 = modelStore]
    IN  /\ nextId <= MaxCycles
        /\ nextId' = nextId + 1
        /\ runningModel' = TRUE
        /\ IF fail = "tensor2d"
           THEN /\ tasks' = [tasks EXCEPT ![c] =
                       [fr EXCEPT !.pc = "rejected", !.err = "tensor2d"]]
                /\ UNCHANGED <<liveModels, tensors>>
           ELSE /\ tasks' = [tasks EXCEPT ![c] =
                       [fr EXCEPT !.pc = "fit", !.xMin = ColMin(xs),
                                  !.xMax = ColMax(xs)]]
                /\ liveModels' = liveModels \cup {c}
                /\ tensors' = tensors \cup Buffers(BuildKinds, c)
        /\ UNCHANGED <<mounted, products, stats, modelStore, lastAlert,
                       splitRun>>

\* Mutant: the empty-dataset guard of lines 137-140 is missing, and
\* tf.tensor2d throws on the empty array.
trainAndPredict_NoEmptyGuard(fail) ==
    IF products = <<>> THEN StartTraining("tensor2d") ELSE StartTraining(fail)

trainAndPredict(fail) ==
    IF products = <<>>
    THEN /\ lastAlert' = <<"No products available.">>
         /\ UNCHANGED <<mounted, products, runningModel, stats, modelStore,
                        tasks, nextId, liveModels, tensors, splitRun>>
    ELSE StartTraining(fail)

\* Mutant: the button is disabled on an empty dataset only.
TrainDisabled_IgnoresRunning == Len(products) = 0

\* disabled={runningModel || products.length === 0} (line 243)
TrainDisabled == runningModel \/ Len(products) = 0

\* onClick={trainAndPredict}: the button delivers the click only when enabled.
ClickTrain ==
    /\ ~MicrotaskPending
    /\ ~TrainDisabled
    /\ \E fail \in StartFailures : trainAndPredict(fail)

\* trainAndPredict called as a function, whatever the button shows.
CallTrain ==
    /\ ~MicrotaskPending
    /\ \E fail \in StartFailures : trainAndPredict(fail)

(***************************************************************************)
(* model.fit settles (line 104).                                           *)
(***************************************************************************)
FitReject(c) ==
    /\ tasks[c].pc = "fit"
    /\ tasks' = [tasks EXCEPT ![c].pc = "rejected", ![c].err = "fit"]
    /\ UNCHANGED <<mounted, products, runningModel, stats, modelStore, nextId,
                   liveModels, tensors, lastAlert, splitRun>>

\* Lines 112-133, then lines 145-150 up to the await of preds.data().
ScoreFailures == {"none", "tensor2d", "predict"}

FitResolve(c, w, fail) ==
    LET fr    == tasks[c]
        xNorm == normalize(Features(fr.items), fr.xMin, fr.xMax)
        acc   == ValAccuracy(w, ValBlock(xNorm), ValBlock(Labels(fr.items)))
        kept  == tensors \ Buffers(BuildDisposed, c)
    IN  /\ fr.pc = "fit"
        \* modelStore.current.model.dispose(), errors swallowed
        /\ liveModels' = liveModels \ {modelStore.model}
        /\ modelStore' = [model |-> c, xMin |-> fr.xMin, xMax |-> fr.xMax]
        /\ tensors' =
              CASE fail = "tensor2d" -> kept
                [] fail = "predict"  -> kept \cup Buffers(NormalizeInputKinds, c)
                [] OTHER -> kept \cup Buffers(NormalizeInputKinds \cup {"preds"}, c)
        /\ tasks' = [tasks EXCEPT ![c] =
              [fr EXCEPT !.wts = w, !.valAcc = acc,
                         !.pc = IF fail = "none" THEN "data" ELSE "rejected",
                         !.err = IF fail = "none" THEN "" ELSE fail]]
        /\ UNCHANGED <<mounted, products, runningModel, stats, nextId,
                       lastAlert, splitRun>>

(***************************************************************************)
(* preds.data() settles (line 150).                                        *)
(***************************************************************************)
DataReject(c) ==
    /\ tasks[c].pc = "data"
    /\ tasks' = [tasks EXCEPT ![c].pc = "rejected", ![c].err = "data"]
    /\ UNCHANGED <<mounted, products, runningModel, stats, modelStore, nextId,
                   liveModels, tensors, lastAlert, splitRun>>

\* Mutant: a record that already carries a prediction keeps it.
Updated_KeepsScored(items, predData, c) ==
    [i \in 1..Len(items) |->
        IF items[i].hasPrediction THEN items[i]
        ELSE [items[i] EXCEPT !.hasPrediction = TRUE,
                              !.predictionScore = predData[i],
                              !.prediction = Threshold(predData[i]),
                              !.by = c]]

\* Mutant: the predicted label is written over the rule's label.
Updated_OverwritesLabel(items, predData, c) ==
    [i \in 1..Len(items) |->
        [items[i] EXCEPT !.hasPrediction = TRUE,
                         !.predictionScore = predData[i],
                         !.prediction = Threshold(predData[i]),
                         !.reorder = Threshold(predData[i]),
                         !.by = c]]

\* Lines 152-156: products.map((p, i) => ({...p, predictionScore, prediction,
\* predictionText})), products being the array the call was made with.
Updated(items, predData, c) ==
    [i \in 1..Len(items) |->
        [items[i] EXCEPT !.hasPrediction = TRUE,
                         !.predictionScore = predData[i],
                         !.prediction = Threshold(predData[i]),
                         !.by = c]]

\* What a frame keeps once its call has returned.
Ended(pc) == [IdleFrame EXCEPT !.pc = pc]

\* Lines 152-169, then the finally block (line 174).
DataResolve(c) ==
    LET fr        == tasks[c]
        inputNorm == normalize(Features(fr.items), fr.xMin, fr.xMax)
        predData  == [i \in 1..Len(fr.items) |-> Predict(fr.wts, inputNorm[i])]
        updated   == Updated(fr.items, predData, c)
    IN  /\ fr.pc = "data"
        /\ products' = updated
        /\ stats' = [total          |-> Len(updated),
                     serverReorders |-> CountReorder(updated),
                     modelReorders  |-> CountPrediction(updated),
                     modelAccuracy  |-> FormatAccuracy(fr.valAcc)]
        /\ tensors' = tensors \ Buffers(ScoreDisposed, c)
        /\ runningModel' = FALSE
        /\ tasks' = [tasks EXCEPT ![c] = Ended("done")]
        /\ UNCHANGED <<mounted, modelStore, nextId, liveModels, lastAlert,
                       splitRun>>

\* Mutant: the flag is reset at the end of the try block, not in a finally.
CatchFinally_NoFinally(c) ==
    /\ tasks[c].pc = "rejected"
    /\ lastAlert' = <<"Error training/predicting: ", tasks[c].err>>
    /\ tasks' = [tasks EXCEPT ![c] = Ended("failed")]
    /\ UNCHANGED <<mounted, products, runningModel, stats, modelStore, nextId,
                   liveModels, tensors, splitRun>>

\* The catch block (lines 170-172), then the finally block (line 174).
CatchFinally(c) ==
    /\ tasks[c].pc = "rejected"
    /\ lastAlert' = <<"Error training/predicting: ", tasks[c].err>>
    /\ runningModel' = FALSE
    /\ tasks' = [tasks EXCEPT ![c] = Ended("failed")]
    /\ UNCHANGED <<mounted, products, stats, modelStore, nextId, liveModels,
                   tensors, splitRun>>

\* The continuations the event loop runs for the calls in flight.
Continue ==
    \E c \in Cycles :
        \/ FitReject(c)
        \/ \E w \in Weights, fail \in ScoreFailures : FitResolve(c, w, fail)
        \/ DataReject(c)
        \/ DataResolve(c)
        \/ CatchFinally(c)

(***************************************************************************)
(* The component driven through its buttons.                               *)
(***************************************************************************)
Next == Mount \/ Regenerate \/ ClickTrain \/ Continue

Spec == Init /\ [][Next]_vars

\* Every await settles, and a settled await is resumed.
FairSpec == Spec /\ WF_vars(Continue)

(***************************************************************************)
(* The component with trainAndPredict called directly.                     *)
(***************************************************************************)
CallNext == Mount \/ Regenerate \/ CallTrain \/ Continue

CallSpec == Init /\ [][CallNext]_vars

(***************************************************************************)
(* The positional split of buildAndTrainModel (lines 97-102) run on        *)
(* datasets of every size up to MaxSplitN; a record is stood for by its id.*)
(***************************************************************************)
SplitInit ==
    /\ mounted = FALSE
    /\ products = <<>>
    /\ runningModel = FALSE
    /\ stats = [total |-> 0, serverReorders |-> 0, modelReorders |-> 0,
                modelAccuracy |-> <<>>]
    /\ modelStore = NullStore
    /\ tasks = [c \in Cycles |-> IdleFrame]
    /\ nextId = 1
    /\ liveModels = {}
    /\ tensors = {}
    /\ lastAlert = <<>>
    /\ splitRun \in {[pc |-> "input", items |-> [i \in 1..n |-> i],
                      train |-> <<>>, val |-> <<>>] : n \in 0..MaxSplitN}

DoSplit ==
    /\ splitRun.pc = "input"
    /\ splitRun' = [splitRun EXCEPT !.pc = "split",
                                    !.train = TrainBlock(splitRun.items),
                                    !.val = ValBlock(splitRun.items)]
    /\ UNCHANGED <<mounted, products, runningModel, stats, modelStore, tasks,
                   nextId, liveModels, tensors, lastAlert>>

SplitNext == DoSplit

SplitSpec == SplitInit /\ [][SplitNext]_vars


(***************************************************************************)
(* Properties.                                                             *)
(***************************************************************************)
AnyInFlight == \E c \in Cycles : InFlight(c)

\* C1: whenever trainAndPredict has set runningModel to true, runningModel is
\* eventually false again, whether the fit/predict sequence succeeds or throws.
C1_RunningModelResets == runningModel ~> ~runningModel

\* C1 witness: a cycle that threw has ended and the flag is down.
C1_Witness ==
    /\ ~runningModel
    /\ \E c \in Cycles : tasks[c].pc = "failed"
    /\ Len(lastAlert) = 2

\* C2: a cycle that fails leaves the stored model (with its min/max) and the
\* predictions as they were when the cycle started, the stored model
\* undisposed.  (A Regenerate Products made meanwhile is not held against it.)
C2_FailureKeepsPrevious ==
    [][\A c \in Cycles :
          CatchFinally(c) =>
              /\ modelStore' = tasks[c].store0
              /\ modelStore'.model # 0 => modelStore'.model \in liveModels'
              /\ \/ products' = tasks[c].items
                 \/ products' = generateProducts(GenCount)]_vars

\* C3: at most one training cycle is in flight at any time, and a cycle is in
\* flight exactly while runningModel is true.
C3_SingleCycleInFlight ==
    /\ Cardinality({c \in Cycles : InFlight(c)}) <= 1
    /\ runningModel <=> AnyInFlight

\* C3 witness: a cycle is being fitted and nothing but the flag keeps a click
\* from starting another.
C3_Witness ==
    /\ runningModel
    /\ \E c \in Cycles : tasks[c].pc = "fit"
    /\ nextId <= MaxCycles
    /\ products # <<>>
    /\ ~MicrotaskPending

\* C4: no model that was created is left undisposed without being the
\* installed current model, a model still in its own cycle apart.
C4_NoModelLeak ==
    \A m \in liveModels : modelStore.model = m \/ InFlight(m)

\* The records carry predictions all or none, all from one completed cycle,
\* and none while no cycle has completed.
C5_Wholesale ==
    /\ \/ \A i \in 1..Len(products) :
              ~products[i].hasPrediction /\ products[i].by = 0
       \/ \E c \in Cycles :
              /\ tasks[c].pc = "done"
              /\ \A i \in 1..Len(products) :
                    products[i].hasPrediction /\ products[i].by = c
    /\ (\A c \in Cycles : tasks[c].pc # "done") =>
           \A i \in 1..Len(products) : ~products[i].hasPrediction

\* A completing cycle gives every record the score and label of its own model.
C5_Recomputed ==
    \A c \in Cycles :
        DataResolve(c) =>
            LET xn == normalize(Features(tasks[c].items), tasks[c].xMin,
                                tasks[c].xMax)
            IN  /\ Len(products') = Len(tasks[c].items)
                /\ \A i \in 1..Len(products') :
                      /\ products'[i].hasPrediction
                      /\ products'[i].by = c
                      /\ products'[i].predictionScore = Predict(tasks[c].wts, xn[i])
                      /\ products'[i].prediction =
                             (IF products'[i].predictionScore > 5 THEN 1 ELSE 0)

\* C5: no record carries a prediction until a cycle has completed; the
\* records carry predictions all or none, all from one completed cycle; and a
\* completing cycle gives every record the score of its own model, so none
\* keeps a score of an earlier cycle.
C5_PredictionsWholesale == []C5_Wholesale /\ [][C5_Recomputed]_vars

\* C5 witness: a second cycle has completed over records the first had scored.
C5_Witness ==
    /\ tasks[1].pc = "done"
    /\ tasks[2].pc = "done"
    /\ products # <<>>
    /\ \A i \in 1..Len(products) : products[i].by = 2

StatsInitial ==
    [total |-> 0, serverReorders |-> 0, modelReorders |-> 0,
     modelAccuracy |-> <<>>]

\* C6: as long as products is empty, calls of trainAndPredict start no
\* training: runningModel stays false, no model or tensor is created, nothing
\* is installed, and products and stats stay as constructed.
C6_EmptyDatasetNoTraining ==
    products = <<>> =>
        /\ ~runningModel
        /\ modelStore = NullStore
        /\ liveModels = {}
        /\ tensors = {}
        /\ \A c \in Cycles : tasks[c].pc = "idle"
        /\ nextId = 1
        /\ stats = StatsInitial

\* C6 witness: trainAndPredict was called on the empty dataset and reported it.
C6_Witness ==
    /\ products = <<>>
    /\ lastAlert = <<"No products available.">>

\* C7: the training block is the first floor(0.8 n) records in order, the
\* validation block the remaining ones; disjoint, covering; 120/30 for 150.
C7_PositionalSplit ==
    splitRun.pc = "split" =>
        LET n == Len(splitRun.items)
            t == splitRun.train
            v == splitRun.val
        IN  /\ 5 * Len(t) <= 4 * n
            /\ 4 * n < 5 * (Len(t) + 1)
            /\ Len(v) = n - Len(t)
            /\ \A i \in 1..Len(t) : t[i] = splitRun.items[i]
            /\ \A i \in 1..Len(v) : v[i] = splitRun.items[Len(t) + i]
            /\ {t[i] : i \in 1..Len(t)} \cap {v[i] : i \in 1..Len(v)} = {}
            /\ {t[i] : i \in 1..Len(t)} \cup {v[i] : i \in 1..Len(v)} = 1..n
            /\ n = 150 => Len(t) = 120 /\ Len(v) = 30

\* C7 witness: the 150-record dataset has been split.
C7_Witness ==
    /\ splitRun.pc = "split"
    /\ Len(splitRun.items) = 150
    /\ Len(splitRun.train) = 120

\* The fields generation gives a record.
Generated(p) ==
    <<p.id, p.currentInventory, p.avgSalesPerWeek, p.daysToReplenish, p.reorder>>

\* C8: in every state each record's label is 1 iff currentInventory <
\* avgSalesPerWeek * (daysToReplenish / 7) * 1.25, and the records are the
\* generated ones: same number, order, ids, fields and labels.
C8_LabelsAndFieldsFixed ==
    /\ \A i \in 1..Len(products) :
           LET p == products[i]
           IN  /\ p.reorder \in {0, 1}
               /\ p.reorder = 1 <=>
                    4 * 7 * p.currentInventory < 5 * p.avgSalesPerWeek * p.daysToReplenish
    /\ mounted =>
           /\ Len(products) = GenCount
           /\ \A i \in 1..GenCount :
                  Generated(products[i]) = Generated(generateProducts(GenCount)[i])

\* C8 witness: a completed cycle predicted 0 for a record whose label is 1.
C8_Witness ==
    \E i \in 1..Len(products) :
        /\ products[i].hasPrediction
        /\ products[i].reorder = 1
        /\ products[i].prediction = 0

\* C9: once no cycle is in flight, the only tensors allocated are the min/max
\* of the installed model.
C9_BuffersReleased ==
    ~AnyInFlight => tensors \subseteq Buffers({"xMin", "xMax"}, modelStore.model)

\* C10: after initial load the stats agree with products: total, the number
\* of rule reorders, and the number of records predicted 1.
C10_StatsAgree ==
    mounted =>
        /\ stats.total = Len(products)
        /\ stats.serverReorders =
              Cardinality({i \in 1..Len(products) : products[i].reorder = 1})
        /\ stats.modelReorders =
              Cardinality({i \in 1..Len(products) :
                              products[i].hasPrediction /\ products[i].prediction = 1})

====
